---- MODULE Spec2Model ----
(***************************************************************************)
(* Model of coldatoms/particles.py: the Ensemble container, particle       *)
(* production by sources, sink processing and the drift-kick-drift push,   *)
(* and of coldatoms/radiation_pressure.py: the RadiationPressure force.    *)
(*                                                                         *)
(* Numbers are float64 values modelled exactly: a finite value is a        *)
(* reduced fraction, and the IEEE specials inf, -inf and nan are kept      *)
(* (numpy divides by a zero mass without raising).  Rounding is not        *)
(* modelled.                                                               *)
(***************************************************************************)
EXTENDS Integers, Sequences, FiniteSets, TLC

VARIABLES x, v, ensemble_properties, particle_properties, np_strict, last, calls,
          accumulator, radiation_pressure

vars == <<x, v, ensemble_properties, particle_properties, np_strict, last, calls,
          accumulator, radiation_pressure>>

(***************************************************************************)
(* Bounds of the model.                                                    *)
(***************************************************************************)
MaxN == 2
MaxCalls == 3
MaxCoord == 1
MaxDt == 2
MaxCount == 2
MaxSources == 2
MaxForces == 2
MaxGamma == 2

(* Number of spatial components of a position or velocity row. *)
Dim == 3

(***************************************************************************)
(* float64 arithmetic as numpy performs it (exact on finite values).       *)
(***************************************************************************)
Abs(a) == IF a < 0 THEN -a ELSE a

Sgn(a) == IF a < 0 THEN -1 ELSE IF a > 0 THEN 1 ELSE 0

RECURSIVE GCD(_, _)
GCD(a, b) == IF b = 0 THEN a ELSE GCD(b, a % b)

NaN == [c |-> "nan", n |-> 0, d |-> 1]

Inf(s) == [c |-> "inf", n |-> s, d |-> 1]

Rat(n, d) ==
    LET g == GCD(Abs(n), Abs(d))
    IN  [c |-> "fin", n |-> (Sgn(d) * n) \div g, d |-> Abs(d) \div g]

Fin(n) == [c |-> "fin", n |-> n, d |-> 1]

Half == Rat(1, 2)

FNeg(a) == IF a.c = "nan" THEN NaN ELSE [a EXCEPT !.n = -a.n]

FAbs(a) == IF a.c = "nan" THEN NaN ELSE [a EXCEPT !.n = Abs(a.n)]

FAdd(a, b) ==
    IF a.c = "nan" \/ b.c = "nan" THEN NaN
    ELSE IF a.c = "inf" /\ b.c = "inf" THEN (IF a.n = b.n THEN a ELSE NaN)
    ELSE IF a.c = "inf" THEN a
    ELSE IF b.c = "inf" THEN b
    ELSE Rat(a.n * b.d + b.n * a.d, a.d * b.d)

FSub(a, b) == FAdd(a, FNeg(b))

FMul(a, b) ==
    IF a.c = "nan" \/ b.c = "nan" THEN NaN
    ELSE IF a.c = "inf" \/ b.c = "inf"
         THEN (IF a.n = 0 \/ b.n = 0 THEN NaN ELSE Inf(Sgn(a.n) * Sgn(b.n)))
    ELSE Rat(a.n * b.n, a.d * b.d)

FDiv(a, b) ==
    IF a.c = "nan" \/ b.c = "nan" THEN NaN
    ELSE IF a.c = "inf"
         THEN (IF b.c = "inf" THEN NaN
               ELSE Inf(a.n * (IF b.n < 0 THEN -1 ELSE 1)))
    ELSE IF b.c = "inf" THEN Fin(0)
    ELSE IF b.n = 0 THEN (IF a.n = 0 THEN NaN ELSE Inf(Sgn(a.n)))
    ELSE Rat(a.n * b.d, a.d * b.n)

(* a <= b on floats: false as soon as one side is nan. *)
FLe(a, b) ==
    IF a.c = "nan" \/ b.c = "nan" THEN FALSE
    ELSE IF a.c = "inf" THEN (a.n < 0 \/ (b.c = "inf" /\ b.n > 0))
    ELSE IF b.c = "inf" THEN b.n > 0
    ELSE a.n * b.d <= b.n * a.d

(* a == b on floats: nan equals nothing. *)
FEq(a, b) == a.c # "nan" /\ b.c # "nan" /\ a = b

(***************************************************************************)
(* Rows (3-vectors) and arrays.                                            *)
(***************************************************************************)
Vec(a, b, c) == <<Fin(a), Fin(b), Fin(c)>>

ZeroRow == [j \in 1..Dim |-> Fin(0)]

RECURSIVE SumSeq(_)
SumSeq(s) == IF s = <<>> THEN Fin(0) ELSE FAdd(Head(s), SumSeq(Tail(s)))

(* a.dot(b) for two rows *)
Dot(a, b) == SumSeq([j \in 1..Dim |-> FMul(a[j], b[j])])

RowAdd(a, b) == [j \in 1..Dim |-> FAdd(a[j], b[j])]

RowSub(a, b) == [j \in 1..Dim |-> FSub(a[j], b[j])]

RowScale(c, a) == [j \in 1..Dim |-> FMul(c, a[j])]

(* np.zeros([num_ptcls, 3]) *)
Zeros(n) == [i \in 1..n |-> ZeroRow]

(* The rows i (0-based) of s with i not in idx, in order: np.delete(s, idx, 0) *)
RECURSIVE NpDeleteFrom(_, _, _)
NpDeleteFrom(s, idx, i) ==
    IF i > Len(s) THEN <<>>
    ELSE IF (i - 1) \in idx THEN NpDeleteFrom(s, idx, i + 1)
    ELSE <<s[i]>> \o NpDeleteFrom(s, idx, i + 1)

NpDelete(s, idx) == NpDeleteFrom(s, idx, 1)

(* ndarray.resize on the leading dimension of a 2-d array of rows *)
ResizeRows(s, n) == [i \in 1..n |-> IF i <= Len(s) THEN s[i] ELSE ZeroRow]

(* ndarray.resize of the flat buffer to n elements, zero filled *)
ResizeFlat(s, n) == [i \in 1..n |-> IF i <= Len(s) THEN s[i] ELSE Fin(0)]

RECURSIVE Prod(_)
Prod(shape) == IF shape = <<>> THEN 1 ELSE Head(shape) * Prod(Tail(shape))

(***************************************************************************)
(* A per-particle property array: its owner (the object identity class:    *)
(* the caller's array or an array owned by the ensemble), its shape and    *)
(* its flat C-ordered data.                                                *)
(***************************************************************************)
Arr(owner, shape, data) == [owner |-> owner, shape |-> shape, data |-> data]

Ramp(n, p) == [i \in 1..n |-> Fin(1 + ((i + p) % 2))]

(* The arrays a caller passes to set_particle_property. *)
CallerArrays ==
    { Arr("caller", shape, Ramp(Prod(shape), p)) :
        shape \in UNION {{<<n>>, <<n, Dim>>} : n \in 0..MaxN}, p \in 0..0 }

Keys == {"mass", "charge"}

NoLog == <<>>

(* The record of the last call: its name, the error it raised ("" for none),
   the number of particles it found, and a summary of its arguments: the key
   or the kind of sink, and the size, the number of indices, of sources or of
   forces. *)
Call(op, err, n0, tag, k) == [op |-> op, err |-> err, n0 |-> n0, tag |-> tag, k |-> k]

(***************************************************************************)
(* Ensemble                                                                *)
(***************************************************************************)
EmptyMap == [k \in {} |-> 0]

Put(m, key, val) == [k \in DOMAIN m \cup {key} |-> IF k = key THEN val ELSE m[k]]

(* The ensemble as one value: positions, velocities and the two maps. *)
Ens(xx, vv, ep, pp) == [x |-> xx, v |-> vv, ep |-> ep, pp |-> pp]

Self == Ens(x, v, ensemble_properties, particle_properties)

(* get_num_ptcls: self.x.shape[0] *)
NumPtcls(e) == Len(e.x)

num_ptcls == NumPtcls(Self)

(* The result of a call: the ensemble it leaves, the error it raised ("" for
   none) and the calls it made on its collaborators. *)
Res(e, err, log) == [e |-> e, err |-> err, log |-> log]

(* The array stored as passed, not copied. *)
NpCopy_alias(prop) == prop

(* np.copy(prop): a new array object, owned by the ensemble *)
NpCopy(prop) == [prop EXCEPT !.owner = "ensemble"]

(* Ensemble.set_particle_property *)
SetParticlePropertyOp(e, key, prop) ==
    IF prop.shape[1] # NumPtcls(e)
    THEN Res(e, "ShapeMismatch", NoLog)
    ELSE Res([e EXCEPT !.pp = Put(e.pp, key, NpCopy(prop))], "", NoLog)

(* The shape list resize hands to ndarray.resize for a property array:
   shape = [prop.shape]; shape[0] = new_size *)
PropResizeShape(shape, new_size) == <<new_size>>

(* ndarray.resize(shape) in place: the flat buffer cut or zero filled *)
ResizeProp(a, new_size) ==
    LET shape == PropResizeShape(a.shape, new_size)
    IN  [a EXCEPT !.shape = shape, !.data = ResizeFlat(a.data, Prod(shape))]

(* Ensemble.resize *)
ResizeOp(e, new_size) ==
    IF new_size < 0
    THEN Res(e, "ValueError", NoLog)
    ELSE Res([e EXCEPT !.x = ResizeRows(e.x, new_size),
                       !.v = ResizeRows(e.v, new_size),
                       !.pp = [k \in DOMAIN e.pp |-> ResizeProp(e.pp[k], new_size)]],
             "", NoLog)

(* The loop of Ensemble.delete over particle_properties: it iterates the keys
   and binds np.delete's result to the loop variable, so the stored arrays
   stay as they are. *)
DeleteProps(pp, indices) == pp

(* np.delete(key, indices, 0) on a key, a 0-d array: numpy >= 1.19 raises
   AxisError, older numpy returns a copy. *)
DeleteLoopErr(pp, strict) == IF strict /\ DOMAIN pp # {} THEN "AxisError" ELSE ""

(* Ensemble.delete *)
DeleteOp(e, indices, strict) ==
    Res([e EXCEPT !.x = NpDelete(e.x, indices),
                  !.v = NpDelete(e.v, indices),
                  !.pp = DeleteProps(e.pp, indices)],
        DeleteLoopErr(e.pp, strict), NoLog)

(***************************************************************************)
(* Sources and produce_ptcls                                               *)
(***************************************************************************)
(* A particle a source writes: a position row and a velocity row. *)
Ptcl(px, pv) == [x |-> px, v |-> pv]

SrcPtcls == { Ptcl(Vec(0, 0, 1), Vec(0, 0, -1)), Ptcl(Vec(0, 0, -1), Vec(0, 0, 0)) }

(* A source: the counts its successive num_ptcls_produced calls return (the
   last one repeats) and what its produce_ptcls writes into each row of its
   slice; the produce_ptcls of the base class writes nothing. *)
Source(counts, writes, ptcl) == [counts |-> counts, writes |-> writes, ptcl |-> ptcl]

Sources ==
    { Source(<<k, k + 1>>, TRUE, p) : k \in 0..MaxCount, p \in SrcPtcls }
    \cup { Source(<<0, 0>>, FALSE, Ptcl(ZeroRow, ZeroRow)) }

SourceLists == UNION { [1..n -> Sources] : n \in 0..MaxSources }

(* s.num_ptcls_produced(dt), the q-th call on s *)
NumPtclsProduced(s, q) == s.counts[IF q <= Len(s.counts) THEN q ELSE Len(s.counts)]

(* s.produce_ptcls(dt, start, end, ensemble): rows start..end-1 (0-based) *)
SourceWrites(s, start, end, e) ==
    IF ~s.writes THEN e
    ELSE [e EXCEPT
            !.x = [i \in 1..Len(e.x) |->
                     IF start < i /\ i <= end THEN s.ptcl.x ELSE e.x[i]],
            !.v = [i \in 1..Len(e.v) |->
                     IF start < i /\ i <= end THEN s.ptcl.v ELSE e.v[i]]]

(* The first loop of produce_ptcls: num_new_ptcls, one query per source *)
NumNewPtcls(sources) == [i \in 1..Len(sources) |-> NumPtclsProduced(sources[i], 1)]

RECURSIVE SumInts(_)
SumInts(s) == IF s = <<>> THEN 0 ELSE Head(s) + SumInts(Tail(s))

(* The count asked again of the source at production time. *)
SliceWidth_requery(sources, num_new_ptcls, i) == NumPtclsProduced(sources[i], 2)

(* The width of the slice handed to source i: num_new_ptcls[i] *)
SliceWidth(sources, num_new_ptcls, i) == num_new_ptcls[i]

(* start left where it is. *)
NextStart_stuck(start, num_new_ptcls, i) == start

(* start += num_new_ptcls[i] *)
NextStart(start, num_new_ptcls, i) == start + num_new_ptcls[i]

(* The second loop of produce_ptcls from source i on, `start` as in the code.
   Returns the ensemble and the produce_ptcls calls made. *)
RECURSIVE ProduceLoop(_, _, _, _, _)
ProduceLoop(sources, num_new_ptcls, i, start, r) ==
    IF i > Len(sources) THEN r
    ELSE LET end == start + SliceWidth(sources, num_new_ptcls, i)
         IN  ProduceLoop(sources, num_new_ptcls, i + 1,
                         NextStart(start, num_new_ptcls, i),
                         Res(SourceWrites(sources[i], start, end, r.e), "",
                             Append(r.log, [call |-> "produce_ptcls", src |-> i,
                                            start |-> start, end |-> end])))

(* produce_ptcls(dt, ensemble, sources) *)
ProducePtclsOp(dt, e, sources) ==
    LET num_new_ptcls == NumNewPtcls(sources)
        tot_new_ptcls == SumInts(num_new_ptcls)
        queries == [i \in 1..Len(sources) |->
                      [call |-> "num_ptcls_produced", src |-> i,
                       ret |-> num_new_ptcls[i]]]
        start == NumPtcls(e)
        resized == ResizeOp(e, NumPtcls(e) + tot_new_ptcls)
        log == Append(queries, [call |-> "resize",
                                new_size |-> NumPtcls(e) + tot_new_ptcls])
    IN  ProduceLoop(sources, num_new_ptcls, 1, start, Res(resized.e, "", log))

(***************************************************************************)
(* Sinks and process_sink                                                  *)
(***************************************************************************)
SinkPlane(point, normal) == [kind |-> "SinkPlane", point |-> point, normal |-> normal]

BaseSink == [kind |-> "Sink"]

None == [kind |-> "None"]

Sinks ==
    { None, BaseSink,
      SinkPlane(Vec(0, 0, 0), Vec(0, 0, 1)),
      SinkPlane(Vec(1, 0, 0), Vec(1, 0, 0)) }

(* The value returned for a particle that does not hit the sink: 2.0 * dt *)
Sentinel(dt) == FMul(Fin(2), dt)

(* SinkPlane.find_absorption_time for one particle *)
PlaneTau(sink, xi, vi, dt) ==
    LET normal_velocity == Dot(sink.normal, vi)
    IN  IF FEq(normal_velocity, Fin(0))
        THEN Sentinel(dt)
        ELSE FDiv(Dot(sink.normal, RowSub(sink.point, xi)), normal_velocity)

(* sink.find_absorption_time(x, v, dt) *)
FindAbsorptionTime(sink, xx, vv, dt) ==
    IF sink.kind = "Sink"
    THEN [i \in 1..Len(xx) |-> Sentinel(dt)]
    ELSE [i \in 1..Len(xx) |-> PlaneTau(sink, xx[i], vv[i], dt)]

(* The window without its two ends: abs(tau - 0.5 * dt) < 0.5 * dt *)
InWindow_open(tau, dt) ==
    /\ FLe(FAbs(FSub(tau, FMul(Half, dt))), FMul(Half, dt))
    /\ ~FEq(FAbs(FSub(tau, FMul(Half, dt))), FMul(Half, dt))

(* abs(tau - 0.5 * dt) <= 0.5 * dt *)
InWindow(tau, dt) == FLe(FAbs(FSub(tau, FMul(Half, dt))), FMul(Half, dt))

(* np.arange(num_ptcls)[abs(absorption_times - 0.5 * dt) <= 0.5 * dt] *)
AbsorptionIndices(absorption_times, dt) ==
    { i \in 0..(Len(absorption_times) - 1) : InWindow(absorption_times[i + 1], dt) }

(* The absorption recorded once the particles are deleted. *)
ProcessSinkOp_late(dt, e, sink, strict) ==
    IF sink.kind = "None" THEN Res(e, "", NoLog)
    ELSE LET absorption_times == FindAbsorptionTime(sink, e.x, e.v, dt)
             absorption_indices == AbsorptionIndices(absorption_times, dt)
             deleted == DeleteOp(e, absorption_indices, strict)
         IN  Res(deleted.e, deleted.err,
                 <<[call |-> "find_absorption_time", x |-> e.x, v |-> e.v,
                    dt |-> dt, ret |-> absorption_times],
                   [call |-> "delete", indices |-> absorption_indices],
                   [call |-> "record_absorption", dt |-> dt, n |-> NumPtcls(deleted.e),
                    absorption_times |-> absorption_times,
                    absorption_indices |-> absorption_indices]>>)

(* process_sink(dt, ensemble, sink) *)
ProcessSinkOp(dt, e, sink, strict) ==
    IF sink.kind = "None" THEN Res(e, "", NoLog)
    ELSE LET absorption_times == FindAbsorptionTime(sink, e.x, e.v, dt)
             absorption_indices == AbsorptionIndices(absorption_times, dt)
             deleted == DeleteOp(e, absorption_indices, strict)
         IN  Res(deleted.e, deleted.err,
                 <<[call |-> "find_absorption_time", x |-> e.x, v |-> e.v,
                    dt |-> dt, ret |-> absorption_times],
                   [call |-> "record_absorption", dt |-> dt, n |-> NumPtcls(e),
                    absorption_times |-> absorption_times,
                    absorption_indices |-> absorption_indices],
                   [call |-> "delete", indices |-> absorption_indices]>>)

(***************************************************************************)
(* Forces and drift_kick                                                   *)
(***************************************************************************)
(* A force: force(dt, ensemble, f) adds the row F to every row of f. *)
Force(F) == [F |-> F]

Forces == { Force(Vec(0, 0, 0)), Force(Vec(0, 0, 2)), Force(Vec(0, 0, -2)) }

ForceLists == UNION { [1..n -> Forces] : n \in 0..MaxForces }

(* The half step taken where the whole one is due. *)
Drift_half(e, c) ==
    [e EXCEPT !.x = [i \in 1..Len(e.x) |->
                       RowAdd(e.x[i], RowScale(FMul(Half, c), e.v[i]))]]

(* ensemble.x += c * ensemble.v *)
Drift(e, c) == [e EXCEPT !.x = [i \in 1..Len(e.x) |-> RowAdd(e.x[i], RowScale(c, e.v[i]))]]

(* force.force(dt, ensemble, f) *)
ForceAdds(force, dt, e, f) == [i \in 1..Len(f) |-> RowAdd(f[i], force.F)]

(* The accumulator and the calls made so far in the kick. *)
Kicked(f, log) == [f |-> f, log |-> log]

(* One call force.force(dt, ensemble, f) of the kick, on the force at
   position i of the list. *)
KickCall(forces, i, dt, e, k) ==
    Kicked(ForceAdds(forces[i], dt, e, k.f),
           Append(k.log, [call |-> "force", force |-> i, dt |-> dt,
                          x |-> e.x, v |-> e.v, f |-> k.f]))

(* The forces called from the end of the list to its start. *)
RECURSIVE Kick_reversed(_, _, _, _, _)
Kick_reversed(forces, i, dt, e, k) ==
    IF i > Len(forces) THEN k
    ELSE Kick_reversed(forces, i + 1, dt, e,
                       KickCall(forces, Len(forces) + 1 - i, dt, e, k))

(* for force in forces: force.force(dt, ensemble, f), from position i on *)
RECURSIVE Kick(_, _, _, _, _)
Kick(forces, i, dt, e, k) ==
    IF i > Len(forces) THEN k
    ELSE Kick(forces, i + 1, dt, e, KickCall(forces, i, dt, e, k))

(* The outcome of f / m followed by ensemble.v += : the rows added, or the
   ValueError numpy raises. *)
Quot(rows) == [ok |-> TRUE, rows |-> rows]

BroadcastError == [ok |-> FALSE, rows |-> <<>>]

(* f / m for a scalar m *)
DivScalar(f, m) == Quot([i \in 1..Len(f) |-> [j \in 1..Dim |-> FDiv(f[i][j], m)]])

(* f / m for an array m, by numpy's broadcasting of (N, 3) against m.shape;
   "ValueError" when the shapes do not broadcast or the quotient does not fit
   ensemble.v in the += that follows. *)
DivArray(f, m) ==
    LET N == Len(f)
        M == m.shape[1]
    IN  IF Len(m.shape) = 1
        THEN IF M = Dim
             THEN Quot([i \in 1..N |-> [j \in 1..Dim |-> FDiv(f[i][j], m.data[j])]])
             ELSE IF M = 1
             THEN Quot([i \in 1..N |-> [j \in 1..Dim |-> FDiv(f[i][j], m.data[1])]])
             ELSE BroadcastError
        ELSE IF M = N
             THEN Quot([i \in 1..N |->
                     [j \in 1..Dim |-> FDiv(f[i][j], m.data[(i - 1) * Dim + j])]])
             ELSE IF M = 1
             THEN Quot([i \in 1..N |-> [j \in 1..Dim |-> FDiv(f[i][j], m.data[j])]])
             ELSE BroadcastError

(* The mass drift_kick divides by: [found, value, scalar] *)
ResolveMass(e) ==
    IF "mass" \in DOMAIN e.ep
    THEN [found |-> TRUE, scalar |-> TRUE, m |-> e.ep["mass"]]
    ELSE IF "mass" \in DOMAIN e.pp
    THEN [found |-> TRUE, scalar |-> FALSE, m |-> e.pp["mass"]]
    ELSE [found |-> FALSE, scalar |-> TRUE, m |-> Fin(0)]

(* ensemble.v += a *)
AddToV(e, a) == [e EXCEPT !.v = [i \in 1..Len(e.v) |-> RowAdd(e.v[i], a[i])]]

(* The second half without its sink pass. *)
SecondHalf_nosink(dt, e, a, sink, strict, log) ==
    Res(Drift(AddToV(e, a), FMul(Half, dt)), "", log)

(* The second half of a force-driven drift_kick, from the velocity update on *)
SecondHalf(dt, e, a, sink, strict, log) ==
    LET kicked == AddToV(e, a)
        sunk == ProcessSinkOp(FMul(Half, dt), kicked, sink, strict)
    IN  IF sunk.err # "" THEN Res(sunk.e, sunk.err, log \o sunk.log)
        ELSE Res(Drift(sunk.e, FMul(Half, dt)), "", log \o sunk.log)

(* The mass looked up before anything is done. *)
DriftKickForces_early(dt, e, forces, sink, strict) ==
    LET sunk == ProcessSinkOp(FMul(Half, dt), e, sink, strict)
        drifted == Drift(sunk.e, FMul(Half, dt))
        kick == Kick(forces, 1, dt, drifted, Kicked(Zeros(Len(drifted.v)), NoLog))
        mass == ResolveMass(e)
        a == IF mass.scalar THEN DivScalar(kick.f, mass.m) ELSE DivArray(kick.f, mass.m)
    IN  IF ~mass.found THEN Res(e, "MissingMass", NoLog)
        ELSE IF sunk.err # "" THEN sunk
        ELSE IF ~a.ok THEN Res(drifted, "ValueError", sunk.log \o kick.log)
        ELSE SecondHalf(dt, drifted, a.rows, sink, strict, sunk.log \o kick.log)

(* The force-driven branch of drift_kick *)
DriftKickForces(dt, e, forces, sink, strict) ==
    LET sunk == ProcessSinkOp(FMul(Half, dt), e, sink, strict)
        drifted == Drift(sunk.e, FMul(Half, dt))
        kick == Kick(forces, 1, dt, drifted, Kicked(Zeros(Len(drifted.v)), NoLog))
        f == kick.f
        log == sunk.log \o kick.log
        mass == ResolveMass(drifted)
        a == IF mass.scalar THEN DivScalar(f, mass.m) ELSE DivArray(f, mass.m)
    IN  IF sunk.err # "" THEN sunk
        ELSE IF ~mass.found THEN Res(drifted, "MissingMass", log)
        ELSE IF ~a.ok THEN Res(drifted, "ValueError", log)
        ELSE SecondHalf(dt, drifted, a.rows, sink, strict, log)

(* drift_kick(dt, ensemble, forces, sink) *)
DriftKickOp(dt, e, forces, sink, strict) ==
    IF Len(forces) = 0
    THEN LET sunk == ProcessSinkOp(dt, e, sink, strict)
         IN  IF sunk.err # "" THEN sunk
             ELSE Res(Drift(sunk.e, dt), "", sunk.log)
    ELSE DriftKickForces(dt, e, forces, sink, strict)

(***************************************************************************)
(* RadiationPressure                                                       *)
(***************************************************************************)
(* np.pi.  The float64 value stands here as the fraction 355/113; the
   computation uses it only as a finite positive divisor. *)
Pi == Rat(355, 113)

(* The integer part of the square root of m >= 0, sought between lo and hi. *)
RECURSIVE ISqrtIn(_, _, _)
ISqrtIn(m, lo, hi) ==
    IF lo = hi THEN lo
    ELSE LET mid == (lo + hi + 1) \div 2
         IN  IF mid * mid <= m THEN ISqrtIn(m, mid, hi) ELSE ISqrtIn(m, lo, mid - 1)

ISqrt(m) == ISqrtIn(m, 0, IF m < 1024 THEN m ELSE 46340)

(* np.sqrt: nan below zero (a warning, no exception); a root that is no
   fraction of the argument's denominator is rounded down to one. *)
FSqrt(a) ==
    IF a.c = "nan" THEN NaN
    ELSE IF a.c = "inf" THEN (IF a.n > 0 THEN a ELSE NaN)
    ELSE IF a.n < 0 THEN NaN
    ELSE Rat(ISqrt(a.n * a.d), a.d)

(* a**2 *)
FSquare(a) == FMul(a, a)

(* An intensity profile: intensities(x) answers `below` for a particle under
   the plane z = 0 and `above` for the others. *)
Intensity(below, above) == [below |-> below, above |-> above]

IntensityProfiles == { Intensity(0, 0), Intensity(0, 1), Intensity(1, 1) }

(* self.intensity.intensities(ensemble.x) *)
Intensities(intensity, xx) ==
    [i \in 1..Len(xx) |->
        IF FLe(Fin(0), xx[i][Dim]) THEN Fin(intensity.above) ELSE Fin(intensity.below)]

(* A detuning profile: detunings(x, v) answers d0 - kz * v_z, the detuning at
   rest less the Doppler shift. *)
Detuning(d0, kz) == [d0 |-> d0, kz |-> kz]

DetuningProfiles == { Detuning(0, 0), Detuning(-1, 1) }

(* self.detuning.detunings(ensemble.x, ensemble.v) *)
Detunings(detuning, xx, vv) ==
    [i \in 1..Len(xx) |-> FSub(Fin(detuning.d0), FMul(Fin(detuning.kz), vv[i][Dim]))]

(* RadiationPressure.__init__: the arguments are stored as they come. *)
RadiationPressureInit(gamma, hbar_k, intensity, detuning) ==
    [gamma |-> gamma, hbar_k |-> hbar_k, intensity |-> intensity, detuning |-> detuning]

(* The expected numbers of scattered photons:
   dt * s_of_r * ((gamma / 2.0 / np.pi) * (gamma / 2.0)**2 /
                  ((gamma / 2.0)**2 * (1.0 + 2.0 * s_of_r) + deltas**2)) *)
Nbars(gamma, dt, s_of_r, deltas) ==
    [i \in 1..Len(s_of_r) |->
        FMul(FMul(dt, s_of_r[i]),
             FDiv(FMul(FDiv(FDiv(gamma, Fin(2)), Pi), FSquare(FDiv(gamma, Fin(2)))),
                  FAdd(FMul(FSquare(FDiv(gamma, Fin(2))),
                            FAdd(Fin(1), FMul(Fin(2), s_of_r[i]))),
                       FSquare(deltas[i]))))]

(* The rows np.random.normal may draw for a particle. *)
DrawRows == { Vec(1, -1, 0), Vec(-1, 0, 1) }

(* np.random.normal(size=ensemble.x.shape) *)
Draws(n) == [1..n -> DrawRows]

(* RadiationPressure.force(dt, ensemble, f) under the draw `normal`: the
   accumulator it leaves, the error it raises ("" for none: numpy answers nan
   to 0/0 and to the root of a negative number with a warning), and nbars. *)
RadiationPressureForce(rp, dt, e, f, normal) ==
    LET s_of_r == Intensities(rp.intensity, e.x)
        deltas == Detunings(rp.detuning, e.x, e.v)
        nbars == Nbars(rp.gamma, dt, s_of_r, deltas)
        norm == FSqrt(Dot(rp.hbar_k, rp.hbar_k))
        step == [i \in 1..Len(e.x) |-> FMul(FSqrt(FDiv(nbars[i], Fin(3))), norm)]
        recoil_momenta ==
            [i \in 1..Len(e.x) |-> [j \in 1..Dim |-> FMul(normal[i][j], step[i])]]
    IN  [f |-> [i \in 1..Len(f) |-> [j \in 1..Dim |->
                  FAdd(f[i][j], FAdd(FMul(nbars[i], rp.hbar_k[j]),
                                     recoil_momenta[i][j]))]],
         err |-> "",
         nbars |-> nbars]

(***************************************************************************)
(* The state machine: one action per call on the ensemble.                 *)
(***************************************************************************)
DtSet == { Fin(dt) : dt \in 0..MaxDt }

(* The coordinates the model follows: up to MaxCoord in size, and the float
   specials. *)
InRange(a) == a.c # "fin" \/ Abs(a.n) <= MaxCoord * a.d

InBounds(e) ==
    /\ Len(e.x) <= MaxN
    /\ \A i \in 1..Len(e.x) : \A j \in 1..Dim : InRange(e.x[i][j]) /\ InRange(e.v[i][j])

(* Ensemble.__init__; np_strict is the numpy the program runs on. *)
Init ==
    /\ \E n \in 0..MaxN :
          /\ x = Zeros(n)
          /\ v = Zeros(n)
          /\ last = Call("init", "", n, "", n)
    /\ ensemble_properties = EmptyMap
    /\ particle_properties = EmptyMap
    /\ np_strict \in BOOLEAN
    /\ calls = 0
    /\ accumulator = <<>>
    /\ radiation_pressure = None

(* The ensemble a call leaves becomes the state. *)
Leave(res, op, tag, k) ==
    \E r \in {res} :
        /\ InBounds(r.e)
        /\ calls' = calls + 1
        /\ x' = r.e.x
        /\ v' = r.e.v
        /\ ensemble_properties' = r.e.ep
        /\ particle_properties' = r.e.pp
        /\ last' = Call(op, r.err, num_ptcls, tag, k)
        /\ UNCHANGED <<np_strict, accumulator, radiation_pressure>>

SetParticleProperty(key, prop) ==
    Leave(SetParticlePropertyOp(Self, key, prop), "set_particle_property",
          key, prop.shape[1])

set_particle_property ==
    /\ calls < MaxCalls
    /\ \E key \in Keys, prop \in CallerArrays : SetParticleProperty(key, prop)

(* The caller writes into an array it passed to set_particle_property: every
   stored array that is the caller's object changes with it. *)
WriteFirst(a) == [a EXCEPT !.data = [i \in 1..Len(a.data) |-> IF i = 1 THEN Fin(0) ELSE a.data[i]]]

CallerWriteEffect(pp) ==
    [k \in DOMAIN pp |-> IF pp[k].owner = "caller" THEN WriteFirst(pp[k]) ELSE pp[k]]

caller_write ==
    /\ calls < MaxCalls
    /\ DOMAIN particle_properties # {}
    /\ calls' = calls + 1
    /\ particle_properties' = CallerWriteEffect(particle_properties)
    /\ last' = Call("caller_write", "", num_ptcls, "", 0)
    /\ UNCHANGED <<x, v, ensemble_properties, np_strict, accumulator, radiation_pressure>>

(* ensemble.ensemble_properties[key] = value, the caller's assignment *)
SetEnsembleProperty(key, val) ==
    Leave(Res([Self EXCEPT !.ep = Put(ensemble_properties, key, val)], "", NoLog),
          "set_ensemble_property", key, 0)

set_ensemble_property ==
    /\ calls < MaxCalls
    /\ \E val \in {Fin(1), Fin(2)} : SetEnsembleProperty("mass", val)

Resize(new_size) == Leave(ResizeOp(Self, new_size), "resize", "", new_size)

resize ==
    /\ calls < MaxCalls
    /\ \E new_size \in (-1)..MaxN : Resize(new_size)

Delete(indices) ==
    Leave(DeleteOp(Self, indices, np_strict), "delete", "", Cardinality(indices))

delete ==
    /\ calls < MaxCalls
    /\ \E indices \in SUBSET (0..(num_ptcls - 1)) : Delete(indices)

ProducePtcls(dt, sources) ==
    Leave(ProducePtclsOp(dt, Self, sources), "produce_ptcls", "", Len(sources))

(* dt is only handed on to the sources, whose counts do not depend on it here. *)
produce_ptcls ==
    /\ calls < MaxCalls
    /\ \E sources \in SourceLists :
          /\ num_ptcls + SumInts(NumNewPtcls(sources)) <= MaxN
          /\ ProducePtcls(Fin(1), sources)

ProcessSink(dt, sink) ==
    Leave(ProcessSinkOp(dt, Self, sink, np_strict), "process_sink", sink.kind, 0)

process_sink ==
    /\ calls < MaxCalls
    /\ \E dt \in DtSet, sink \in Sinks : ProcessSink(dt, sink)

DriftKick(dt, forces, sink) ==
    Leave(DriftKickOp(dt, Self, forces, sink, np_strict), "drift_kick",
          sink.kind, Len(forces))

drift_kick ==
    /\ calls < MaxCalls
    /\ \E dt \in DtSet, forces \in ForceLists, sink \in Sinks : DriftKick(dt, forces, sink)

Next ==
    \/ set_particle_property
    \/ caller_write
    \/ set_ensemble_property
    \/ resize
    \/ delete
    \/ produce_ptcls
    \/ process_sink
    \/ drift_kick

Spec == Init /\ [][Next]_vars

(***************************************************************************)
(* The state machine of a RadiationPressure object: it is constructed, and *)
(* force is called on it with an ensemble and an accumulator.              *)
(***************************************************************************)
(* RadiationPressure.__init__, next to an ensemble the sources have filled
   and an accumulator np.zeros_like(ensemble.v). *)
ForceInit ==
    /\ \E ptcls \in UNION { [1..n -> SrcPtcls] : n \in 0..MaxN } :
          /\ x = [i \in DOMAIN ptcls |-> ptcls[i].x]
          /\ v = [i \in DOMAIN ptcls |-> ptcls[i].v]
          /\ accumulator = [i \in DOMAIN ptcls |-> ZeroRow]
          /\ last = Call("__init__", "", Cardinality(DOMAIN ptcls), "", 0)
    /\ \E gamma \in (-1)..MaxGamma, intensity \in IntensityProfiles,
          detuning \in DetuningProfiles :
          radiation_pressure =
              RadiationPressureInit(Fin(gamma), Vec(0, 0, 1), intensity, detuning)
    /\ ensemble_properties = EmptyMap
    /\ particle_properties = EmptyMap
    /\ np_strict = TRUE
    /\ calls = 0

force ==
    /\ calls < MaxCalls
    /\ \E dt \in DtSet, normal \in Draws(num_ptcls) :
          \E r \in {RadiationPressureForce(radiation_pressure, dt, Self,
                                           accumulator, normal)} :
             /\ accumulator' = r.f
             /\ calls' = calls + 1
             /\ last' = Call("force", r.err, num_ptcls, "", dt.n)
             /\ UNCHANGED <<x, v, ensemble_properties, particle_properties,
                            np_strict, radiation_pressure>>

ForceNext == force

ForceSpec == ForceInit /\ [][ForceNext]_vars

(***************************************************************************)
(* Properties                                                              *)
(***************************************************************************)
(* The steps the model takes start in the states with calls left. *)
CanCall == calls < MaxCalls

(* The rows of s at the 0-based indices outside gone, in their order. *)
Survivors(s, gone) ==
    LET keep == { i \in 1..Len(s) : (i - 1) \notin gone }
    IN  [n \in 1..Cardinality(keep) |->
            s[CHOOSE i \in keep : Cardinality({ j \in keep : j < i }) = n - 1]]

(* The entry of particle i (1-based) in a per-particle array. *)
Entry(a, i) ==
    LET w == Prod(Tail(a.shape))
    IN  [shape |-> Tail(a.shape), data |-> SubSeq(a.data, (i - 1) * w + 1, i * w)]

(* C1: positions and velocities have the same length N, and every array in
   particle_properties has leading dimension N, in every state any sequence
   of calls leaves, the failed calls included. *)
C1_LengthsAgree ==
    /\ Len(x) = Len(v)
    /\ \A key \in DOMAIN particle_properties :
          particle_properties[key].shape[1] = Len(x)

(* C2: delete(indices) removes exactly the given indices from positions,
   velocities and every per-particle property array: all hold the entries of
   the same surviving particles, in order, and have length N - |indices|. *)
C2_DeleteAllArrays ==
    CanCall =>
      \A indices \in SUBSET (0..(num_ptcls - 1)) :
        LET r == DeleteOp(Self, indices, np_strict)
        IN  /\ r.e.x = Survivors(x, indices)
            /\ r.e.v = Survivors(v, indices)
            /\ \A key \in DOMAIN particle_properties :
                  LET before == particle_properties[key]
                      after == r.e.pp[key]
                      rows == Survivors([i \in 1..before.shape[1] |-> Entry(before, i)],
                                        indices)
                  IN  /\ after.shape[1] = Len(r.e.x)
                      /\ [i \in 1..after.shape[1] |-> Entry(after, i)] = rows

(* The calls of one kind in a log, in order. *)
CallsOf(log, name) == SelectSeq(log, LAMBDA ev : ev.call = name)

(* The position of the resize in the log of a produce_ptcls. *)
ResizeAt(log) == CHOOSE j \in 1..Len(log) : log[j].call = "resize"

(* C3: produce_ptcls grows the ensemble from N0 to N0 + k_1 + ... + k_n and
   calls the sources' produce_ptcls in list order with slices [start_i, end_i),
   start_1 = N0, end_i - start_i = k_i, start_{i+1} = end_i: contiguous,
   disjoint and covering [N0, N0 + sum k_i); each source's rows are the ones
   in its slice and the old rows stay. *)
C3_ProduceSlices ==
    CanCall =>
      \A sources \in SourceLists :
        LET r == ProducePtclsOp(Fin(1), Self, sources)
            n == Len(sources)
            N0 == num_ptcls
            Q == CallsOf(r.log, "num_ptcls_produced")
            P == CallsOf(r.log, "produce_ptcls")
            k == [i \in 1..n |-> Q[i].ret]
        IN  /\ Len(Q) = n /\ Len(P) = n
            /\ Len(r.e.x) = N0 + SumInts(k)
            /\ Len(r.e.v) = N0 + SumInts(k)
            /\ \A i \in 1..n :
                  /\ P[i].src = i
                  /\ P[i].start = (IF i = 1 THEN N0 ELSE P[i - 1].end)
                  /\ P[i].end - P[i].start = k[i]
                  /\ \A row \in (P[i].start + 1)..P[i].end :
                        sources[i].writes =>
                          /\ r.e.x[row] = sources[i].ptcl.x
                          /\ r.e.v[row] = sources[i].ptcl.v
            /\ (n > 0 => P[n].end = N0 + SumInts(k))
            /\ \A row \in 1..N0 : r.e.x[row] = x[row] /\ r.e.v[row] = v[row]

(* C10: within one produce_ptcls, num_ptcls_produced is called at most once
   per source, every query comes before the resize and the resize before
   every produce_ptcls, and the width of each slice is the count the source's
   one query returned, whatever the source would answer if asked again. *)
C10_CountsQueriedOnce ==
    CanCall =>
      \A sources \in SourceLists :
        LET log == ProducePtclsOp(Fin(1), Self, sources).log
        IN  /\ \A i \in 1..Len(sources) :
                  Cardinality({ j \in 1..Len(log) :
                      log[j].call = "num_ptcls_produced" /\ log[j].src = i }) <= 1
            /\ Len(CallsOf(log, "resize")) = 1
            /\ \A j \in 1..Len(log) :
                  /\ log[j].call = "num_ptcls_produced" => j < ResizeAt(log)
                  /\ log[j].call = "produce_ptcls" =>
                        /\ j > ResizeAt(log)
                        /\ \E q \in 1..(ResizeAt(log) - 1) :
                              /\ log[q].call = "num_ptcls_produced"
                              /\ log[q].src = log[j].src
                              /\ log[q].ret = log[j].end - log[j].start

(* C4: process_sink with a sink deletes exactly the particles with
   0 <= tau_i <= dt, both ends included; the others keep position and
   velocity and their order; without a sink nothing changes. *)
C4_AbsorbsWindow ==
    CanCall =>
      \A dt \in DtSet, sink \in Sinks :
        LET r == ProcessSinkOp(dt, Self, sink, np_strict)
        IN  IF sink.kind = "None"
            THEN r.e = Self /\ r.err = ""
            ELSE LET tau == r.log[1].ret
                     gone == { i \in 0..(num_ptcls - 1) :
                                 FLe(Fin(0), tau[i + 1]) /\ FLe(tau[i + 1], dt) }
                 IN  /\ Len(tau) = num_ptcls
                     /\ r.e.x = Survivors(x, gone)
                     /\ r.e.v = Survivors(v, gone)

(* The sink passes of a step: the positions of record_absorption in its log. *)
Passes(log) == { j \in 1..Len(log) : log[j].call = "record_absorption" }

(* A sink pass of r absorbs no particle that the sink answered the sentinel
   for: none at all for the base Sink, none with zero velocity along the
   normal for a SinkPlane. *)
SpareSentinel(r, sink) ==
    \A j \in Passes(r.log) :
        \A i \in r.log[j].absorption_indices :
            /\ sink.kind # "Sink"
            /\ sink.kind = "SinkPlane" =>
                  ~FEq(Dot(sink.normal, r.log[j - 1].v[i + 1]), Fin(0))

(* C5: for every dt >= 0 passed to process_sink or drift_kick, a particle
   with zero velocity along the normal of a SinkPlane is never deleted, and
   the base Sink never deletes any particle. *)
C5_SentinelNeverAbsorbed ==
    CanCall =>
      \A dt \in DtSet, sink \in Sinks \ {None} :
        /\ SpareSentinel(ProcessSinkOp(dt, Self, sink, np_strict), sink)
        /\ sink.kind = "Sink" =>
              Len(ProcessSinkOp(dt, Self, sink, np_strict).e.x) = num_ptcls
        /\ \A forces \in ForceLists :
              /\ SpareSentinel(DriftKickOp(dt, Self, forces, sink, np_strict), sink)
              /\ sink.kind = "Sink" =>
                    Len(DriftKickOp(dt, Self, forces, sink, np_strict).e.x) = num_ptcls

(* The sum of the rows the forces add to each row of the accumulator. *)
RECURSIVE TotalForce(_)
TotalForce(forces) ==
    IF forces = <<>> THEN ZeroRow ELSE RowAdd(Head(forces).F, TotalForce(Tail(forces)))

(* C6: a drift_kick with forces fails with MissingMass exactly when 'mass' is
   in neither map; an ensemble-wide 'mass' is the one used, also next to a
   per-particle one; without forces it never fails for missing mass. *)
C6_MassResolution ==
    CanCall =>
      \A dt \in DtSet, forces \in ForceLists, sink \in Sinks :
        LET r == DriftKickOp(dt, Self, forces, sink, np_strict)
        IN  IF forces = <<>>
            THEN r.err # "MissingMass"
            ELSE /\ r.err = "MissingMass" <=>
                       /\ "mass" \notin DOMAIN ensemble_properties
                       /\ "mass" \notin DOMAIN particle_properties
                 /\ ("mass" \in DOMAIN ensemble_properties /\ sink.kind = "None") =>
                       /\ r.err = ""
                       /\ r.e.v = [i \in 1..num_ptcls |-> [j \in 1..Dim |->
                             FAdd(v[i][j], FDiv(TotalForce(forces)[j],
                                                ensemble_properties["mass"]))]]

(* C7: resize(M) yields num_ptcls = M and keeps, in positions, velocities and
   every per-particle property of any shape, the entry of each particle below
   min(N, M). *)
C7_ResizeKeepsEntries ==
    CanCall =>
      \A new_size \in 0..MaxN :
        LET r == ResizeOp(Self, new_size)
            m == IF new_size < num_ptcls THEN new_size ELSE num_ptcls
        IN  /\ NumPtcls(r.e) = new_size
            /\ \A i \in 1..m :
                  /\ r.e.x[i] = x[i]
                  /\ r.e.v[i] = v[i]
                  /\ \A key \in DOMAIN particle_properties :
                        Entry(r.e.pp[key], i) = Entry(particle_properties[key], i)

(* C8: set_particle_property fails with ShapeMismatch exactly when the leading
   dimension of the array is not num_ptcls; a failed call changes nothing; a
   successful one stores the array's contents under key in an array of the
   ensemble's own, so that a later write of the caller into its array changes
   no stored property. *)
C8_SetParticleProperty ==
    /\ CallerWriteEffect(particle_properties) = particle_properties
    /\ CanCall =>
        \A key \in Keys, prop \in CallerArrays :
          LET r == SetParticlePropertyOp(Self, key, prop)
          IN  /\ r.err = (IF prop.shape[1] # num_ptcls THEN "ShapeMismatch" ELSE "")
              /\ r.err # "" => r.e = Self
              /\ r.err = "" =>
                    /\ r.e.x = x /\ r.e.v = v /\ r.e.ep = ensemble_properties
                    /\ DOMAIN r.e.pp = DOMAIN particle_properties \cup {key}
                    /\ r.e.pp[key].shape = prop.shape
                    /\ r.e.pp[key].data = prop.data
                    /\ \A other \in DOMAIN particle_properties \ {key} :
                          r.e.pp[other] = particle_properties[other]

(* C9: drift_kick with no forces and no sink leaves the velocities, sets every
   position to position + dt * velocity, and leaves the particle count and
   both property maps. *)
C9_KinematicStep ==
    CanCall =>
      \A dt \in DtSet :
        LET r == DriftKickOp(dt, Self, <<>>, None, np_strict)
        IN  /\ r.err = ""
            /\ r.e.v = v
            /\ Len(r.e.x) = num_ptcls
            /\ \A i \in 1..num_ptcls : \A j \in 1..Dim :
                  r.e.x[i][j] = FAdd(x[i][j], FMul(dt, v[i][j]))
            /\ r.e.ep = ensemble_properties
            /\ r.e.pp = particle_properties

(* C11: a RadiationPressure whose gamma is <= 0 is reported as an invalid
   configuration, by the constructor or at the latest by force, and force
   adds nothing to the accumulator.  The states of ForceSpec hold the objects
   the constructor has accepted. *)
C11_InvalidGammaReported ==
    (CanCall /\ FLe(radiation_pressure.gamma, Fin(0))) =>
      \A dt \in DtSet, normal \in Draws(num_ptcls) :
        LET r == RadiationPressureForce(radiation_pressure, dt, Self, accumulator, normal)
        IN  /\ r.err = "InvalidConfiguration"
            /\ r.f = accumulator

(* force gives the particles of intensity 0 an nbar of 0 and leaves their
   rows of the accumulator. *)
ZeroIntensityRows(rp) ==
    \A dt \in DtSet, normal \in Draws(num_ptcls) :
      LET r == RadiationPressureForce(rp, dt, Self, accumulator, normal)
          s_of_r == Intensities(rp.intensity, x)
      IN  \A i \in 1..num_ptcls :
            FEq(s_of_r[i], Fin(0)) =>
              /\ FEq(r.nbars[i], Fin(0))
              /\ r.f[i] = accumulator[i]

(* C12: force computes nbar == 0 for the particles whose intensity s is 0 and
   leaves their rows of the accumulator unchanged, for every dt, detuning and
   random draw, on every object the constructor has accepted. *)
C12_ZeroIntensityNoForce == CanCall => ZeroIntensityRows(radiation_pressure)

(* The same on the objects of a decay rate above 0. *)
ZeroIntensityValidGamma ==
    (CanCall /\ ~FLe(radiation_pressure.gamma, Fin(0))) =>
        ZeroIntensityRows(radiation_pressure)

(* force has run on particles of intensity 0 under a decay rate above 0. *)
ZeroIntensityReached ==
    /\ last.op = "force" /\ last.k > 0 /\ num_ptcls > 0
    /\ ~FLe(radiation_pressure.gamma, Fin(0))
    /\ \E i \in 1..num_ptcls :
          FEq(Intensities(radiation_pressure.intensity, x)[i], Fin(0))

(* The position in a log of the n-th sink pass. *)
PassAt(log, n) ==
    CHOOSE j \in Passes(log) : Cardinality({ k \in Passes(log) : k < j }) = n - 1

(* The particles the n-th sink pass of a log absorbed. *)
Absorbed(log, n) == log[PassAt(log, n)].absorption_indices

(* C13: a drift_kick with forces, a sink and a per-particle 'mass' (none
   ensemble-wide) completes, also after the sink has removed particles, and
   the velocity of each particle that is left has changed by its accumulated
   force divided by its own mass. *)
C13_PerParticleMass ==
    ( /\ CanCall
      /\ "mass" \notin DOMAIN ensemble_properties
      /\ "mass" \in DOMAIN particle_properties
      /\ Len(particle_properties["mass"].shape) = 1 ) =>
      \A dt \in DtSet, forces \in ForceLists \ {<<>>}, sink \in Sinks \ {None} :
        LET r == DriftKickOp(dt, Self, forces, sink, np_strict)
            m == particle_properties["mass"].data
            own == [i \in 1..num_ptcls |-> [j \in 1..Dim |->
                       FAdd(v[i][j], FDiv(TotalForce(forces)[j], m[i]))]]
        IN  /\ r.err = ""
            /\ Cardinality(Passes(r.log)) = 2
            /\ Len(m) = num_ptcls =>
                  r.e.v = Survivors(Survivors(own, Absorbed(r.log, 1)),
                                    Absorbed(r.log, 2))

(* Every row of s moved by c times the row of w. *)
Moved(s, c, w) == [i \in 1..Len(s) |-> RowAdd(s[i], RowScale(c, w[i]))]

(* n rows, each the sum of the rows the forces add. *)
Accumulated(forces, n) == [i \in 1..n |-> TotalForce(forces)]

(* C14: a successful drift_kick with forces does, in this order: a sink pass
   over dt/2; the drift of the positions by dt/2 * velocities; the kick, whose
   accumulator starts at zero with one row per particle left by the first
   pass and in which every force is called once, in list order, with the
   whole dt and the drifted positions; the velocity update by accumulator /
   mass; a second sink pass over dt/2 on the new velocities; the second drift
   by dt/2 * the new velocities. *)
C14_SubstepOrder ==
    CanCall =>
      \A dt \in DtSet, forces \in ForceLists \ {<<>>}, sink \in Sinks :
        LET r == DriftKickOp(dt, Self, forces, sink, np_strict)
            n == Len(forces)
            o == IF sink.kind = "None" THEN 0 ELSE 3
            half == FMul(Half, dt)
            gone1 == IF o = 0 THEN {} ELSE r.log[2].absorption_indices
            x1 == Survivors(x, gone1)
            v1 == Survivors(v, gone1)
            xd == Moved(x1, half, v1)
            second == r.log[o + n + 1]
            gone2 == IF o = 0 THEN {} ELSE r.log[o + n + 2].absorption_indices
        IN  r.err = "" =>
              /\ Len(r.log) = n + 2 * o
              /\ o = 3 =>
                    /\ r.log[1].call = "find_absorption_time"
                    /\ r.log[1].dt = half /\ r.log[1].x = x /\ r.log[1].v = v
                    /\ r.log[2].call = "record_absorption"
                    /\ r.log[3].call = "delete" /\ r.log[3].indices = gone1
              /\ \A k \in 1..n :
                    /\ r.log[o + k].call = "force"
                    /\ r.log[o + k].force = k
                    /\ r.log[o + k].dt = dt
                    /\ r.log[o + k].x = xd
                    /\ r.log[o + k].v = v1
                    /\ r.log[o + k].f = Accumulated(SubSeq(forces, 1, k - 1), Len(v1))
              /\ o = 3 =>
                    /\ second.call = "find_absorption_time"
                    /\ second.dt = half /\ second.x = xd
                    /\ r.log[o + n + 2].call = "record_absorption"
                    /\ r.log[o + n + 3].call = "delete"
                    /\ r.log[o + n + 3].indices = gone2
                    /\ r.e.v = Survivors(second.v, gone2)
              /\ "mass" \in DOMAIN ensemble_properties =>
                    LET m == ensemble_properties["mass"]
                        v2 == [i \in 1..Len(v1) |-> [j \in 1..Dim |->
                                 FAdd(v1[i][j], FDiv(TotalForce(forces)[j], m))]]
                    IN  /\ o = 3 => second.v = v2
                        /\ r.e.v = Survivors(v2, gone2)
              /\ r.e.x = Moved(Survivors(xd, gone2), half, r.e.v)

(* In a log, every record_absorption stands between the find_absorption_time
   and the delete of its pass: it sees the ensemble the times were found
   for, one time per particle, and its indices are indices of that ensemble
   and the ones deleted next. *)
RecordedBeforeDelete(log) ==
    \A j \in Passes(log) :
        /\ 1 < j /\ j < Len(log)
        /\ log[j - 1].call = "find_absorption_time"
        /\ log[j + 1].call = "delete"
        /\ log[j].n = Len(log[j - 1].x)
        /\ log[j].dt = log[j - 1].dt
        /\ log[j].absorption_times = log[j - 1].ret
        /\ Len(log[j].absorption_times) = log[j].n
        /\ log[j].absorption_indices \subseteq 0..(log[j].n - 1)
        /\ log[j + 1].indices = log[j].absorption_indices

(* C15: a process_sink with a sink calls record_absorption exactly once,
   after find_absorption_time and before the deletion: the ensemble still
   holds its N particles, absorption_times has N entries, and
   absorption_indices index that ensemble and are exactly what is deleted
   next.  The same holds of every sink pass of a drift_kick. *)
C15_RecordBeforeDelete ==
    CanCall =>
      \A dt \in DtSet, sink \in Sinks \ {None} :
        /\ LET r == ProcessSinkOp(dt, Self, sink, np_strict)
           IN  /\ Passes(r.log) = {2}
               /\ Len(r.log) = 3
               /\ RecordedBeforeDelete(r.log)
               /\ r.log[2].n = num_ptcls
               /\ r.log[1].x = x /\ r.log[1].v = v /\ r.log[2].dt = dt
               /\ r.e.x = Survivors(x, r.log[2].absorption_indices)
               /\ r.e.v = Survivors(v, r.log[2].absorption_indices)
        /\ \A forces \in ForceLists :
              RecordedBeforeDelete(DriftKickOp(dt, Self, forces, sink, np_strict).log)

(* The particles (1-based, as the step found them) that the sink passes of a
   log have left, in the order of the rows left. *)
Left(log, n) ==
    LET all == [i \in 1..n |-> i]
        one == IF Cardinality(Passes(log)) >= 1
               THEN Survivors(all, Absorbed(log, 1)) ELSE all
    IN  IF Cardinality(Passes(log)) >= 2 THEN Survivors(one, Absorbed(log, 2)) ELSE one

(* normal . (x - point): above 0 on one side of the plane, below 0 on the other. *)
Side(sink, xi) == Dot(sink.normal, RowSub(xi, sink.point))

Above(a) == FLe(Fin(0), a) /\ ~FEq(a, Fin(0))

Below(a) == FLe(a, Fin(0)) /\ ~FEq(a, Fin(0))

(* C16: no particle passes through a SinkPlane and stays: for every dt >= 0
   and every drift_kick, with or without forces, a particle that the step
   leaves in the ensemble is not strictly on one side of the plane before the
   step and strictly on the other after it. *)
C16_NoPassThrough ==
    CanCall =>
      \A dt \in DtSet, forces \in ForceLists, sink \in Sinks :
        sink.kind = "SinkPlane" =>
          LET r == DriftKickOp(dt, Self, forces, sink, np_strict)
              left == Left(r.log, num_ptcls)
          IN  /\ Len(left) = Len(r.e.x)
              /\ \A i \in 1..Len(left) :
                    LET before == Side(sink, x[left[i]])
                        after == Side(sink, r.e.x[i])
                    IN  /\ ~(Above(before) /\ Below(after))
                        /\ ~(Below(before) /\ Above(after))

(* The lists of forces that add nothing to the accumulator. *)
IdleForceLists == { forces \in ForceLists \ {<<>>} : TotalForce(forces) = ZeroRow }

(* For every dt and every plane, the step with idle forces and the step with
   no forces leave the same particles, at the same positions, with the same
   velocities. *)
SameAsKinematic ==
    \A dt \in DtSet, forces \in IdleForceLists, sink \in Sinks :
      sink.kind = "SinkPlane" =>
        LET driven == DriftKickOp(dt, Self, forces, sink, np_strict)
            kinematic == DriftKickOp(dt, Self, <<>>, sink, np_strict)
        IN  /\ Left(driven.log, num_ptcls) = Left(kinematic.log, num_ptcls)
            /\ driven.e.x = kinematic.e.x
            /\ driven.e.v = kinematic.e.v

(* C17: with a 'mass' in either map and a SinkPlane, a drift_kick whose forces
   add nothing to the accumulator is equivalent to the drift_kick with no
   forces for the same dt >= 0: the same particles are deleted (the two
   windows of dt/2 together are the window [0, dt]) and the ones left have
   the same positions and velocities. *)
C17_IdleForcesKinematic ==
    ( /\ CanCall
      /\ "mass" \in DOMAIN ensemble_properties \cup DOMAIN particle_properties ) =>
        SameAsKinematic

(* The same with an ensemble-wide 'mass' where Ensemble.delete does not fail:
   no per-particle property, or a numpy on which its loop goes through. *)
IdleForcesEnsembleMass ==
    ( /\ CanCall
      /\ "mass" \in DOMAIN ensemble_properties
      /\ (DOMAIN particle_properties = {} \/ ~np_strict) ) =>
        SameAsKinematic

(* C18: the mass is looked up only after the first half of the step.  When a
   drift_kick with forces fails with MissingMass, the first sink pass over
   dt/2 has deleted what it absorbed, the positions left have moved by
   dt/2 * velocity and every force has been called once; the velocities are
   as they were, and no second sink pass and no second drift has run. *)
C18_MissingMassAfterFirstHalf ==
    CanCall =>
      \A dt \in DtSet, forces \in ForceLists \ {<<>>}, sink \in Sinks :
        LET r == DriftKickOp(dt, Self, forces, sink, np_strict)
            n == Len(forces)
            o == IF sink.kind = "None" THEN 0 ELSE 3
            half == FMul(Half, dt)
            gone1 == IF o = 0 THEN {} ELSE r.log[2].absorption_indices
        IN  r.err = "MissingMass" =>
              /\ "mass" \notin DOMAIN ensemble_properties \cup DOMAIN particle_properties
              /\ Len(r.log) = o + n
              /\ Passes(r.log) = (IF o = 0 THEN {} ELSE {2})
              /\ o = 3 => r.log[1].dt = half /\ r.log[3].indices = gone1
              /\ \A k \in 1..n : r.log[o + k].call = "force" /\ r.log[o + k].force = k
              /\ r.e.v = Survivors(v, gone1)
              /\ r.e.x = Moved(Survivors(x, gone1), half, Survivors(v, gone1))

(***************************************************************************)
(* States in which the cases of the properties have happened.              *)
(***************************************************************************)
(* Two sources have each written one particle into an empty ensemble. *)
C3_Witness ==
    /\ last.op = "produce_ptcls" /\ last.err = ""
    /\ last.k = 2 /\ last.n0 = 0 /\ Len(x) = 2
    /\ x[1] # x[2]

(* A source whose next answer would differ has written a particle behind the
   ones that were there. *)
C10_Witness ==
    /\ last.op = "produce_ptcls" /\ last.err = ""
    /\ last.k >= 1 /\ last.n0 >= 1 /\ Len(x) > last.n0
    /\ x[Len(x)] # ZeroRow

(* A plane has absorbed one particle and left another. *)
C4_Witness ==
    /\ last.op = "process_sink" /\ last.tag = "SinkPlane" /\ last.err = ""
    /\ 0 < Len(x) /\ Len(x) < last.n0

(* A call has failed for its shape under a key that holds a value. *)
C8_Witness ==
    /\ last.op = "set_particle_property" /\ last.err = "ShapeMismatch"
    /\ last.k # num_ptcls
    /\ last.tag \in DOMAIN particle_properties

(* A step without forces and sink has moved a particle. *)
C9_Witness ==
    /\ last.op = "drift_kick" /\ last.tag = "None" /\ last.k = 0 /\ last.err = ""
    /\ \E i \in 1..Len(x) : v[i] # ZeroRow

(* A step with two forces and a plane has absorbed one particle and left
   a moving one. *)
C14_Witness ==
    /\ last.op = "drift_kick" /\ last.tag = "SinkPlane" /\ last.k = 2 /\ last.err = ""
    /\ 0 < Len(x) /\ Len(x) < last.n0
    /\ \E i \in 1..Len(x) : v[i] # ZeroRow

(* A plane has absorbed both particles of an ensemble. *)
C15_Witness ==
    /\ last.op = "process_sink" /\ last.tag = "SinkPlane" /\ last.err = ""
    /\ last.n0 = 2 /\ Len(x) = 0

(* A step with one force and a plane has absorbed a particle and left one
   that is off the plane. *)
C16_Witness ==
    /\ last.op = "drift_kick" /\ last.tag = "SinkPlane" /\ last.k = 1 /\ last.err = ""
    /\ 0 < Len(x) /\ Len(x) < last.n0
    /\ \E i \in 1..Len(x) : x[i][Dim] # Fin(0)

(* A step with forces has failed for the mass after its plane absorbed one
   particle and left another. *)
C18_Witness ==
    /\ last.op = "drift_kick" /\ last.err = "MissingMass"
    /\ last.tag = "SinkPlane" /\ last.k >= 1
    /\ 0 < Len(x) /\ Len(x) < last.n0

====
